---- MODULE Spec2Model ----
(***************************************************************************)
(* Spectral comparison of graph pairs (isomorfismo.ipynb).                 *)
(*                                                                         *)
(* Arrays are sequences of rows.  The caller's arrays live in a heap and   *)
(* are passed by reference, as numpy arrays are.  Integer arrays hold      *)
(* integers; float arrays hold the records built by Fin, Inf and NaN:      *)
(* Fin(n, r) is the real number n / sqrt(r), which is all that             *)
(* 1 / np.sqrt(row sums) and its products with integers can produce.       *)
(* A spectrum is a sequence of fixed-point integers, FixUnit to the unit.   *)
(***************************************************************************)
EXTENDS Integers, Sequences, FiniteSets, TLC

VARIABLES heap, s1, s2, ret, out

vars == <<heap, s1, s2, ret, out>>

(***************************************************************************)
(* Bounds of the model.                                                    *)
(***************************************************************************)
\* the eigen-solver is modelled with resolution 1/Res
Res == 3
\* order of the graphs of the relabelling specification
IsoN == 3
\* order of the 0/1 arrays of the operations specification
OpsN == 2
\* largest entry of the arrays of order OpsN of the operations specification
MaxEntry == 1
\* largest order of the graphs of the dimensions specification
DimN == 3
\* longest spectrum handed to np.allclose directly
MaxLen == 2

\* floats of a spectrum are fixed-point integers: FixUnit of them make 1.0,
\* so that np.allclose's default atol = 1e-08 is one of them
FixUnit == 100000000
\* np.allclose's default atol = 1e-08, in fixed-point units
Atol == 1
\* np.allclose's default rtol = 1e-05, as its inverse
RtolInv == 100000

(***************************************************************************)
(* IEEE-754 values that the program can produce.                           *)
(***************************************************************************)
Fin(n, r) == [k |-> "fin", n |-> n, r |-> IF n = 0 THEN 1 ELSE r]

Inf(s) == [k |-> "inf", n |-> s, r |-> 1]

NaN == [k |-> "nan", n |-> 0, r |-> 1]

Zero == Fin(0, 1)

Sign(n) == IF n > 0 THEN 1 ELSE IF n < 0 THEN -1 ELSE 0

Abs(n) == IF n < 0 THEN -n ELSE n

\* a * b in IEEE arithmetic: 0 * inf is NaN
Mul(a, b) ==
    CASE a.k = "nan" \/ b.k = "nan" -> NaN
      [] a.k = "inf" /\ b.k = "inf" -> Inf(a.n * b.n)
      [] a.k = "inf" -> IF b.n = 0 THEN NaN ELSE Inf(a.n * Sign(b.n))
      [] b.k = "inf" -> IF a.n = 0 THEN NaN ELSE Inf(b.n * Sign(a.n))
      [] OTHER -> Fin(a.n * b.n, a.r * b.r)

\* a + b in IEEE arithmetic: inf - inf is NaN.  Two finite non-zero terms
\* are added only under a common radicand.
Add(a, b) ==
    CASE a.k = "nan" \/ b.k = "nan" -> NaN
      [] a.k = "inf" /\ b.k = "inf" -> IF a.n = b.n THEN a ELSE NaN
      [] a.k = "inf" -> a
      [] b.k = "inf" -> b
      [] a.n = 0 -> b
      [] b.n = 0 -> a
      [] a.r = b.r -> Fin(a.n + b.n, a.r)

\* float(n)
Float(n) == Fin(n, 1)

\* 1 / np.sqrt(d) under np.errstate(divide="ignore")
InvSqrt(d) == IF d > 0 THEN Fin(1, d) ELSE IF d = 0 THEN Inf(1) ELSE NaN

IsFinite(x) == x.k = "fin"

(***************************************************************************)
(* numpy arrays.                                                           *)
(***************************************************************************)
\* a function on 1..n as the tuple of its values, and an array as the tuple
\* of its rows: values are computed once, when the array is built
Tup(f) == f \o <<>>

TupM(M) == Tup([i \in 1..Len(M) |-> Tup(M[i])])

\* the one element of a singleton: Only({F(x) : x \in {e}}) is F(e) with e
\* computed once
Only(S) == CHOOSE x \in S : TRUE

NRows(M) == Len(M)

NCols(M) == IF Len(M) = 0 THEN 0 ELSE Len(M[1])

IsSquare(M) == NRows(M) = NCols(M)

IsSymmetric(M) ==
    IsSquare(M) /\ \A i, j \in 1..NRows(M) : M[i][j] = M[j][i]

RECURSIVE SumInts(_)
SumInts(s) == IF s = <<>> THEN 0 ELSE s[1] + SumInts(Tail(s))

\* A.sum(axis=1)
RowSums(M) == Tup([i \in 1..NRows(M) |-> SumInts(M[i])])

\* np.diag(v) of a vector of integers: a fresh array
Diag(v) == TupM([i \in 1..Len(v) |-> [j \in 1..Len(v) |-> IF i = j THEN v[i] ELSE 0]])

\* np.diag(v) of a vector of floats: a fresh array
DiagF(v) ==
    TupM([i \in 1..Len(v) |-> [j \in 1..Len(v) |-> IF i = j THEN v[i] ELSE Zero]])

\* numpy broadcasting of two 2-D shapes
Broadcastable(X, Y) ==
    /\ (NRows(X) = NRows(Y) \/ NRows(X) = 1 \/ NRows(Y) = 1)
    /\ (NCols(X) = NCols(Y) \/ NCols(X) = 1 \/ NCols(Y) = 1)

BDim(a, b) == IF a = 1 THEN b ELSE a

BIdx(i, n) == IF n = 1 THEN 1 ELSE i

\* X - Y and X + Y, elementwise with broadcasting
MatSub(X, Y) ==
    TupM([i \in 1..BDim(NRows(X), NRows(Y)) |->
            [j \in 1..BDim(NCols(X), NCols(Y)) |->
                X[BIdx(i, NRows(X))][BIdx(j, NCols(X))]
                  - Y[BIdx(i, NRows(Y))][BIdx(j, NCols(Y))]]])

MatAdd(X, Y) ==
    TupM([i \in 1..BDim(NRows(X), NRows(Y)) |->
            [j \in 1..BDim(NCols(X), NCols(Y)) |->
                X[BIdx(i, NRows(X))][BIdx(j, NCols(X))]
                  + Y[BIdx(i, NRows(Y))][BIdx(j, NCols(Y))]]])

\* integer array seen as a float array
AsFloat(M) == TupM([i \in 1..NRows(M) |-> [j \in 1..NCols(M) |-> Float(M[i][j])]])

RECURSIVE DotF(_, _, _, _, _)
DotF(X, Y, i, j, k) ==
    IF k = 0 THEN Zero
    ELSE Add(DotF(X, Y, i, j, k - 1), Mul(X[i][k], Y[k][j]))

\* X @ Y for float arrays whose inner dimensions agree
MatMulF(X, Y) ==
    TupM([i \in 1..NRows(X) |-> [j \in 1..NCols(Y) |-> DotF(X, Y, i, j, NCols(X))]])

\* outcome of a call: a value, or the exception it raised
Ok(h, v) == [h |-> h, err |-> "none", val |-> v]

Raise(h, e) == [h |-> h, err |-> e, val |-> <<>>]

(***************************************************************************)
(* The derived matrices.  Each operation takes the heap and the reference  *)
(* of its argument and yields the heap it leaves behind and its result.    *)
(***************************************************************************)
\* to_adj on an array: np.asarray returns the very same object
to_adj(h, a) == a

\* laplacian(A) with its effect on the heap changed to an update in place
laplacian_inplace(h, a) ==
    LET A == h[to_adj(h, a)]
        D == Diag(RowSums(A))
    IN  IF Broadcastable(D, A)
        THEN Ok([h EXCEPT ![a] = MatSub(D, A)], MatSub(D, A))
        ELSE Raise(h, "ValueError")

\* laplacian(A) with the adjacency term dropped from the diagonal only
laplacian_offdiag(h, a) ==
    LET A == h[to_adj(h, a)]
        D == Diag(RowSums(A))
    IN  IF Broadcastable(D, A)
        THEN Ok(h, TupM([i \in 1..NRows(MatSub(D, A)) |->
                           [j \in 1..NCols(MatSub(D, A)) |->
                               IF i = j THEN D[i][j] ELSE MatSub(D, A)[i][j]]]))
        ELSE Raise(h, "ValueError")

laplacian(h, a) ==
    LET A == h[to_adj(h, a)]
        D == Diag(RowSums(A))
    IN  IF Broadcastable(D, A) THEN Ok(h, MatSub(D, A)) ELSE Raise(h, "ValueError")

\* signless_laplacian(A) with the sign of the adjacency term slipped
signless_laplacian_minus(h, a) ==
    LET A == h[to_adj(h, a)]
        D == Diag(RowSums(A))
    IN  IF Broadcastable(D, A) THEN Ok(h, MatSub(D, A)) ELSE Raise(h, "ValueError")

signless_laplacian(h, a) ==
    LET A == h[to_adj(h, a)]
        D == Diag(RowSums(A))
    IN  IF Broadcastable(D, A) THEN Ok(h, MatAdd(D, A)) ELSE Raise(h, "ValueError")

\* a fresh object under reference r
Alloc(h, r, M) == [x \in DOMAIN h \cup {r} |-> IF x = r THEN M ELSE h[x]]

\* the heap without the locals of a finished call
Release(h, keep) == [x \in keep |-> h[x]]

\* the masked assignment left out
IsinfAssignNothing(h, r) == h

\* X[np.isinf(X)] = 0, in place on the object under r
IsinfAssignZero(h, r) ==
    [h EXCEPT ![r] = TupM([i \in 1..NRows(@) |-> [j \in 1..NCols(@) |->
                              IF @[i][j].k = "inf" THEN Zero ELSE @[i][j]]])]

normalized_laplacian(h, a) ==
    LET A  == h[to_adj(h, a)]
        d  == RowSums(A)
        h1 == Alloc(h, "D_inv_sqrt", DiagF(Tup([i \in 1..Len(d) |-> InvSqrt(d[i])])))
        h2 == IsinfAssignZero(h1, "D_inv_sqrt")
        S  == h2["D_inv_sqrt"]
        L  == laplacian(h2, a)
        h3 == Release(L.h, DOMAIN h)
    IN  IF L.err # "none" THEN Raise(h3, L.err)
        ELSE IF NCols(L.val) # NRows(S) THEN Raise(h3, "ValueError")
        ELSE Ok(h3, MatMulF(MatMulF(S, AsFloat(L.val)), S))

(***************************************************************************)
(* np.linalg.eigvals.  LAPACK is modelled by what it computes: the roots   *)
(* of the characteristic polynomial, each rounded up to the next multiple  *)
(* of 1/Res.  The polynomial is expanded exactly; the roots are located    *)
(* by counting sign variations (Descartes' rule, exact when all roots are  *)
(* real, as they are for the symmetric arrays the model is run on).        *)
(***************************************************************************)
RECURSIVE GCD(_, _)
GCD(a, b) == IF b = 0 THEN a ELSE GCD(b, a % b)

LCM(a, b) == (a \div GCD(a, b)) * b

\* exact rationals p/q, q > 0
Frac(p, q) == LET g == GCD(Abs(p), q) IN [p |-> p \div g, q |-> q \div g]

FAdd(x, y) == Frac(x.p * y.q + y.p * x.q, x.q * y.q)

FNeg(x) == [p |-> -x.p, q |-> x.q]

ISqrt(r) == IF r = 1 THEN 1 ELSE CHOOSE w \in 1..r : w * w = r

\* the sequence s without its c-th element
Without(s, c) == SubSeq(s, 1, c - 1) \o SubSeq(s, c + 1, Len(s))

\* determinant of M[rows, cols] by expansion along the first row, times
\* the product accN / sqrt(accR) of the entries chosen so far
RECURSIVE DetPath(_, _, _, _, _)
RECURSIVE DetRow(_, _, _, _, _, _)
DetPath(M, rows, cols, accN, accR) ==
    IF rows = <<>> THEN Frac(accN, ISqrt(accR))
    ELSE DetRow(M, rows, cols, accN, accR, Len(cols))

DetRow(M, rows, cols, accN, accR, c) ==
    IF c = 0 THEN Frac(0, 1)
    ELSE LET e    == M[rows[1]][cols[c]]
             rest == DetRow(M, rows, cols, accN, accR, c - 1)
             sub  == DetPath(M, Tail(rows), Without(cols, c), accN * e.n, accR * e.r)
         IN  IF e.n = 0 \/ accN = 0 THEN rest
             ELSE FAdd(rest, IF c % 2 = 1 THEN sub ELSE FNeg(sub))

\* the increasing sequences of k indices among lo..n
RECURSIVE Subsets(_, _, _)
Subsets(lo, n, k) ==
    IF k = 0 THEN {<<>>}
    ELSE UNION {{<<i>> \o t : t \in Subsets(i + 1, n, k - 1)} : i \in lo..(n - k + 1)}

RECURSIVE FSum(_)
FSum(S) == IF S = {} THEN Frac(0, 1)
           ELSE LET x == CHOOSE y \in S : TRUE IN FAdd(x.v, FSum(S \ {x}))

\* sum of the principal minors of order k
MinorSum(M, k) ==
    FSum({[t |-> T, v |-> DetPath(M, T, T, 1, 1)] : T \in Subsets(1, NRows(M), k)})

\* coefficients of det(xI - M), c[j + 1] the coefficient of x^j
CharPoly(M) ==
    LET n == NRows(M)
    IN  Tup([j \in 1..(n + 1) |->
                LET k == n - (j - 1)
                    e == MinorSum(M, k)
                IN  IF k % 2 = 0 THEN e ELSE FNeg(e)])

RECURSIVE LCMDen(_, _)
LCMDen(c, j) == IF j = 0 THEN 1 ELSE LCM(LCMDen(c, j - 1), c[j].q)

RECURSIVE Pow(_, _)
Pow(b, e) == IF e = 0 THEN 1 ELSE b * Pow(b, e - 1)

\* integer polynomial whose roots are Res times the eigenvalues of M
ScaledPoly(M) ==
    LET c == CharPoly(M)
        n == NRows(M)
        m == LCMDen(c, n + 1)
    IN  Tup([j \in 1..(n + 1) |-> c[j].p * (m \div c[j].q) * Pow(Res, n - (j - 1))])

\* one pass of Horner's scheme at k over the coefficients from position i on
RECURSIVE HornerPass(_, _, _, _)
HornerPass(a, i, j, k) ==
    IF j > Len(a) THEN <<>>
    ELSE IF j < i THEN <<a[j]>> \o HornerPass(a, i, j + 1, k)
    ELSE Only({<<a[j] + k * (IF t = <<>> THEN 0 ELSE t[1])>> \o t :
                  t \in {HornerPass(a, i, j + 1, k)}})

\* coefficients of P(t + k): one pass per coefficient
RECURSIVE ShiftPass(_, _, _)
ShiftPass(a, i, k) ==
    IF i >= Len(a) THEN a
    ELSE Only({ShiftPass(b, i + 1, k) : b \in {HornerPass(a, i, 1, k)}})

ShiftBy(a, k) == ShiftPass(a, 1, k)

\* sign variations of the coefficients: the number of positive roots
RECURSIVE Variations(_, _, _)
Variations(a, j, last) ==
    IF j > Len(a) THEN 0
    ELSE IF a[j] = 0 THEN Variations(a, j + 1, last)
    ELSE (IF last # 0 /\ Sign(a[j]) # last THEN 1 ELSE 0)
           + Variations(a, j + 1, Sign(a[j]))

\* a bound on |root| of a real-rooted polynomial: the roots' squares sum
\* to (a[n]^2 - 2 a[n+1] a[n-1]) / a[n+1]^2
RootBound(a) ==
    LET n  == Len(a) - 1
        ss == IF n = 0 THEN 0
              ELSE a[n] * a[n] - 2 * a[n + 1] * (IF n = 1 THEN 0 ELSE a[n - 1])
    IN  CHOOSE w \in 0..(ss + 1) : w * w * a[n + 1] * a[n + 1] >= ss

\* the number of roots of a above k, for k = -w .. w
RootsAbove(a, w) ==
    Tup([j \in 1..(2 * w + 1) |-> Variations(ShiftBy(a, j - w - 1), 1, 0)])

\* the i-th smallest root of a rounded up to an integer, cnt = RootsAbove(a, w)
RootCeil(cnt, w, n, i) ==
    (CHOOSE j \in 1..(2 * w + 1) :
        cnt[j] <= n - i /\ (j = 1 \/ cnt[j - 1] > n - i)) - w - 1

\* the eigenvalues of a float array in FixUnit-th parts, ascending
ExactSpectrum(M) ==
    Only({Tup([i \in 1..NRows(M) |->
                 (g[i] \div Res) * FixUnit + ((g[i] % Res) * FixUnit) \div Res]) :
            g \in UNION {{Tup([i \in 1..NRows(M) |-> RootCeil(cnt, aw[2], NRows(M), i)]) :
                            cnt \in {RootsAbove(aw[1], aw[2])}} :
                         aw \in {<<a, RootBound(a) + 1>> : a \in {ScaledPoly(M)}}}})

\* np.linalg.eigvals(M): LinAlgError unless M is square and finite, else the
\* eigenvalues, listed here in ascending order
lapack_eigvals(M) ==
    IF ~IsSquare(M) THEN [err |-> "LinAlgError", val |-> <<>>]
    ELSE IF \E i, j \in 1..NRows(M) : ~IsFinite(M[i][j])
         THEN [err |-> "LinAlgError", val |-> <<>>]
    ELSE [err |-> "none", val |-> ExactSpectrum(M)]

\* the orders in which the solver may list the eigenvalues
Orders == {0, 1}

\* s rotated left by o places
Rotate(s, o) ==
    IF Len(s) = 0 THEN s
    ELSE Tup([i \in 1..Len(s) |-> s[((i - 1 + o) % Len(s)) + 1]])

RECURSIVE Insert(_, _)
Insert(x, s) ==
    IF s = <<>> THEN <<x>>
    ELSE IF x <= s[1] THEN <<x>> \o s ELSE <<s[1]>> \o Insert(x, Tail(s))

\* the sort left out
np_sort_skipped(s) == s

\* np.sort
RECURSIVE np_sort(_)
np_sort(s) == IF s = <<>> THEN <<>> ELSE Insert(s[1], np_sort(Tail(s)))

\* the real part of an eigenvalue of a symmetric array: the eigenvalue
RealPart(x) == x

\* the absolute values sorted, where the real parts should be
SortedAbs(e, o) ==
    IF e.err # "none" THEN e
    ELSE [err |-> "none",
          val |-> np_sort(Tup([i \in 1..Len(e.val) |-> Abs(Rotate(e.val, o)[i])]))]

\* np.sort(e.real) of what the solver returned; the solver lists the
\* eigenvalues in an order of its own, here a rotation by o
SortedReal(e, o) ==
    IF e.err # "none" THEN e
    ELSE [err |-> "none",
          val |-> np_sort(Tup([i \in 1..Len(e.val) |-> RealPart(Rotate(e.val, o)[i])]))]

\* sorted_eigvals(A) for a float array A
sorted_eigvals(M, o) == SortedReal(lapack_eigvals(M), o)

(***************************************************************************)
(* np.allclose(a, b) with the default tolerances.                          *)
(***************************************************************************)
\* the tolerance taken relative to the first operand
isclose_swapped(x, y) == Abs(x - y) <= Atol + Abs(x) \div RtolInv

\* np.isclose on two finite floats: |x - y| <= atol + rtol * |y|
isclose(x, y) == Abs(x - y) <= Atol + Abs(y) \div RtolInv

\* ValueError when the shapes do not broadcast, else all(isclose)
allclose(a, b) ==
    IF ~(Len(a) = Len(b) \/ Len(a) = 1 \/ Len(b) = 1)
    THEN [err |-> "ValueError", val |-> FALSE]
    ELSE [err |-> "none",
          val |-> \A i \in 1..BDim(Len(a), Len(b)) :
                      isclose(a[BIdx(i, Len(a))], b[BIdx(i, Len(b))])]

(***************************************************************************)
(* nx.to_numpy_array(nx.line_graph(nx.from_numpy_array(A))).               *)
(***************************************************************************)
\* the edges of the undirected graph of a square array: its non-zero entries
EdgesOf(A) ==
    {<<i, j>> \in (1..NRows(A)) \X (1..NRows(A)) :
        i <= j /\ (A[i][j] # 0 \/ A[j][i] # 0)}

RECURSIVE SetToSeq(_)
SetToSeq(S) ==
    IF S = {} THEN <<>>
    ELSE LET m == CHOOSE x \in S : \A y \in S :
                      x[1] < y[1] \/ (x[1] = y[1] /\ x[2] <= y[2])
         IN  <<m>> \o SetToSeq(S \ {m})

\* two distinct edges are adjacent when they share an endpoint
line_graph_array(A) ==
    LET E == SetToSeq(EdgesOf(A))
    IN  TupM([e \in 1..Len(E) |-> [f \in 1..Len(E) |->
            IF e # f /\ {E[e][1], E[e][2]} \cap {E[f][1], E[f][2]} # {}
            THEN Float(1) ELSE Float(0)]])

(***************************************************************************)
(* compare_pair.                                                           *)
(***************************************************************************)
NoSpectrum(e) == [err |-> e, val |-> <<>>]

\* the eigenvalues of the integer array an operation returned
EigOfInt(r) ==
    IF r.err # "none" THEN NoSpectrum(r.err) ELSE lapack_eigvals(AsFloat(r.val))

\* the eigenvalues of the float array an operation returned
EigOfFloat(r) ==
    IF r.err # "none" THEN NoSpectrum(r.err) ELSE lapack_eigvals(r.val)

Entry(name, c, i) == [name |-> name, s1 |-> c[i].val, s2 |-> c[i + 1].val]

\* the dict with two of its entries exchanged
SpecsDictSwapped(c) ==
    << Entry("Adjacency A", c, 1), Entry("Normalized L", c, 5),
       Entry("Laplacian L", c, 3), Entry("Signless |L|", c, 7),
       Entry("Line-graph A", c, 9) >>

\* the dict specs, in insertion order, from the ten spectra c
SpecsDict(c) ==
    << Entry("Adjacency A", c, 1), Entry("Laplacian L", c, 3),
       Entry("Normalized L", c, 5), Entry("Signless |L|", c, 7),
       Entry("Line-graph A", c, 9) >>

NameLine(name) == [kind |-> "name", label |-> name, text |-> ""]

VerdictLine(mat_name, close) ==
    [kind |-> "verdict", label |-> mat_name,
     text |-> IF close THEN "cospettrali" ELSE "diversi"]

\* the loop over specs.items(): a line per entry, until np.allclose raises
RECURSIVE PrintLoop(_, _, _)
PrintLoop(specs, i, printed) ==
    IF i > Len(specs) THEN [err |-> "none", out |-> printed]
    ELSE LET c == allclose(specs[i].s1, specs[i].s2)
         IN  IF c.err # "none" THEN [err |-> c.err, out |-> printed]
             ELSE PrintLoop(specs, i + 1,
                            Append(printed, VerdictLine(specs[i].name, c.val)))

FirstError(c) ==
    IF \E i \in 1..Len(c) : c[i].err # "none"
    THEN c[CHOOSE i \in 1..Len(c) :
               c[i].err # "none" /\ \A j \in 1..(i - 1) : c[j].err = "none"].err
    ELSE "none"

\* the derived arrays in the order in which the dict literal builds them
DerivedCalls(a1, a2) ==
    << [f |-> "laplacian", a |-> a1], [f |-> "laplacian", a |-> a2],
       [f |-> "normalized_laplacian", a |-> a1],
       [f |-> "normalized_laplacian", a |-> a2],
       [f |-> "signless_laplacian", a |-> a1],
       [f |-> "signless_laplacian", a |-> a2] >>

Derive(h, call) ==
    CASE call.f = "laplacian" -> laplacian(h, call.a)
      [] call.f = "normalized_laplacian" -> normalized_laplacian(h, call.a)
      [] call.f = "signless_laplacian" -> signless_laplacian(h, call.a)

\* the results of the first i calls, each run on the heap its predecessor left
RECURSIVE RunCalls(_, _, _)
RunCalls(h, calls, i) ==
    IF i = 0 THEN <<>>
    ELSE LET done == RunCalls(h, calls, i - 1)
         IN  Append(done, Derive(IF i = 1 THEN h ELSE done[i - 1].h, calls[i]))

\* what the solver returns for the i-th array of the dict literal
Solve(h, a1, a2, d, i) ==
    CASE i = 1 -> lapack_eigvals(AsFloat(h[a1]))
      [] i = 2 -> lapack_eigvals(AsFloat(h[a2]))
      [] i \in {3, 4, 7, 8} -> EigOfInt(d[i - 2])
      [] i \in {5, 6} -> EigOfFloat(d[i - 2])
      [] i = 9 -> lapack_eigvals(line_graph_array(d[6].h[a1]))
      [] i = 10 -> lapack_eigvals(line_graph_array(d[6].h[a2]))

\* what the solver returns for the first i arrays of the dict literal; the
\* first exception ends the evaluation and stands for the arrays after it
RECURSIVE Solved(_, _, _, _, _)
Solved(h, a1, a2, d, i) ==
    IF i = 0 THEN <<>>
    ELSE Only({Append(done, IF i > 1 /\ done[i - 1].err # "none" THEN done[i - 1]
                            ELSE Solve(h, a1, a2, d, i)) :
                  done \in {Solved(h, a1, a2, d, i - 1)}})

\* the ten sorted spectra: o1 and o2 are the solver's orders for the arrays
\* of the first and of the second graph
Spectra(e, o1, o2) ==
    Tup([i \in 1..Len(e) |-> SortedReal(e[i], IF i % 2 = 1 THEN o1 ELSE o2)])

\* what compare_pair leaves behind, given the derived arrays d and the ten
\* spectra c: an exception raised while the dict is built leaves nothing
\* printed; the name and the lines of the loop follow otherwise
Report(h, d, c, name) ==
    IF c[1].err # "none" THEN [h |-> h, err |-> c[1].err, out |-> <<>>]
    ELSE IF c[2].err # "none" THEN [h |-> h, err |-> c[2].err, out |-> <<>>]
    ELSE IF FirstError(c) # "none"
         THEN [h |-> d[6].h, err |-> FirstError(c), out |-> <<>>]
    ELSE Only({[h |-> d[6].h, err |-> p.err, out |-> p.out] :
                  p \in {PrintLoop(SpecsDict(c), 1, <<NameLine(name)>>)}})

\* compare_pair(A1, A2, name): its outcomes, one for each pair of orders in
\* which the solver may list the eigenvalues
compare_pair(h, a1, a2, name) ==
    UNION {UNION {{Report(h, d, c, name) :
                      c \in {Spectra(e, o[1], o[2]) : o \in Orders \X Orders}} :
                  e \in {Solved(h, to_adj(h, a1), to_adj(h, a2), d, 10)}} :
           d \in {RunCalls(h, DerivedCalls(to_adj(h, a1), to_adj(h, a2)), 6)}}

(***************************************************************************)
(* The caller: any sequence of calls on the arrays it holds.               *)
(***************************************************************************)
Refs == {"A1", "A2"}

\* the eigen-solver model covers arrays with real eigenvalues: symmetric
\* ones; arrays that are not square are rejected before it runs
Modelled(M) == ~IsSquare(M) \/ IsSymmetric(M)

NoCall == [op |-> "none", arg |-> "none", err |-> "none", val |-> <<>>]

\* no call is in progress and the last result has been taken
Idle == ret.op = "none"

Returned(op, a, r) == [op |-> op, arg |-> a, err |-> r.err, val |-> r.val]

Call_laplacian ==
    /\ Idle
    /\ \E a \in Refs :
        \E r \in {laplacian(heap, a)} :
            /\ heap' = r.h
            /\ ret' = Returned("laplacian", a, r)
            /\ out' = <<>>
            /\ UNCHANGED <<s1, s2>>

Call_normalized_laplacian ==
    /\ Idle
    /\ \E a \in Refs :
        \E r \in {normalized_laplacian(heap, a)} :
            /\ heap' = r.h
            /\ ret' = Returned("normalized_laplacian", a, r)
            /\ out' = <<>>
            /\ UNCHANGED <<s1, s2>>

Call_signless_laplacian ==
    /\ Idle
    /\ \E a \in Refs :
        \E r \in {signless_laplacian(heap, a)} :
            /\ heap' = r.h
            /\ ret' = Returned("signless_laplacian", a, r)
            /\ out' = <<>>
            /\ UNCHANGED <<s1, s2>>

Call_sorted_eigvals ==
    /\ Idle
    /\ \E a \in Refs, o \in Orders :
        /\ Modelled(heap[a])
        /\ ret' = Returned("sorted_eigvals", a,
                           sorted_eigvals(AsFloat(heap[to_adj(heap, a)]), o))
        /\ out' = <<>>
        /\ UNCHANGED <<heap, s1, s2>>

\* np.allclose(s1, s2), the test of the report loop, on two spectra
Call_allclose ==
    /\ Idle
    /\ ret' = Returned("allclose", "none", allclose(s1, s2))
    /\ out' = <<>>
    /\ UNCHANGED <<heap, s1, s2>>

Call_compare_pair ==
    /\ Idle
    /\ Modelled(heap["A1"]) /\ Modelled(heap["A2"])
    /\ \E r \in compare_pair(heap, "A1", "A2", "pair") :
           /\ heap' = r.h
           /\ ret' = Returned("compare_pair", "A1", [err |-> r.err, val |-> <<>>])
           /\ out' = r.out
        /\ UNCHANGED <<s1, s2>>

\* the caller takes the result and the printed lines of the finished call
Resume ==
    /\ ~Idle
    /\ ret' = NoCall
    /\ out' = <<>>
    /\ UNCHANGED <<heap, s1, s2>>

Next ==
    \/ Resume
    \/ Call_laplacian
    \/ Call_normalized_laplacian
    \/ Call_signless_laplacian
    \/ Call_sorted_eigvals
    \/ Call_allclose
    \/ Call_compare_pair

(***************************************************************************)
(* What the caller holds.                                                  *)
(***************************************************************************)
\* the n x n arrays with entries in S
Arrays(n, S) == {TupM(M) : M \in [1..n -> [1..n -> S]]}

\* adjacency arrays of the simple graphs on n vertices
Graphs(n) ==
    {A \in Arrays(n, {0, 1}) : IsSymmetric(A) /\ \A i \in 1..n : A[i][i] = 0}

Perms(n) == {p \in [1..n -> 1..n] : \A i, j \in 1..n : p[i] = p[j] => i = j}

\* P^T A P for the permutation matrix P of p
Permute(A, p) ==
    TupM([i \in 1..NRows(A) |-> [j \in 1..NRows(A) |-> A[p[i]][p[j]]]])

Isomorphic(A, B) ==
    /\ NRows(A) = NRows(B)
    /\ \E p \in Perms(NRows(A)) : Permute(A, p) = B

InitRest == ret = NoCall /\ out = <<>>

\* the example arrays of the notebook
A_saltire_1 ==
    << <<0, 1, 0, 1, 0>>, <<1, 0, 0, 0, 1>>, <<0, 0, 0, 0, 0>>,
       <<1, 0, 0, 0, 1>>, <<0, 1, 0, 1, 0>> >>

A_saltire_2 ==
    << <<0, 0, 1, 0, 0>>, <<0, 0, 1, 0, 0>>, <<1, 1, 0, 1, 1>>,
       <<0, 0, 1, 0, 0>>, <<0, 0, 1, 0, 0>> >>

A_tri_iso == << <<0, 1, 1, 0>>, <<1, 0, 1, 0>>, <<1, 1, 0, 0>>, <<0, 0, 0, 0>> >>

A_star == << <<0, 1, 1, 1>>, <<1, 0, 0, 0>>, <<1, 0, 0, 0>>, <<1, 0, 0, 0>> >>

Examples == {A_saltire_1, A_saltire_2, A_tri_iso, A_star}

\* a graph and a relabelling of it
InitIso ==
    /\ \E n \in 1..IsoN : \E A \in Graphs(n), p \in Perms(n) :
           heap = [A1 |-> A, A2 |-> Permute(A, p)]
    /\ s1 = <<0>> /\ s2 = <<0>>
    /\ InitRest

SpecIso == InitIso /\ [][Next]_vars

\* two of the notebook's examples
InitExamples ==
    /\ heap \in [Refs -> Examples]
    /\ s1 = <<0>> /\ s2 = <<0>>
    /\ InitRest

SpecExamples == InitExamples /\ [][Next]_vars

\* arrays of any shape: the graphs of up to DimN vertices, two arrays that
\* are not square and one with negative entries
DimArrays ==
    UNION {Graphs(n) : n \in 0..DimN}
      \cup { << <<0, 1>> >>, << <<0>>, <<1>> >>, << <<0, -1>>, <<-1, 0>> >> }

InitDims ==
    /\ heap \in [Refs -> DimArrays]
    /\ s1 = <<0>> /\ s2 = <<0>>
    /\ InitRest

SpecDims == InitDims /\ [][Next]_vars

\* square arrays with arbitrary entries, symmetric or not
OpsArrays ==
    UNION {Arrays(n, -1..2) : n \in 0..2} \cup Arrays(OpsN, 0..MaxEntry)

InitOps ==
    /\ \E A \in OpsArrays : heap = [A1 |-> A, A2 |-> << <<0, 1>>, <<1, 0>> >>]
    /\ s1 = <<0>> /\ s2 = <<0>>
    /\ InitRest

SpecOps == InitOps /\ [][Next]_vars

\* fixed-point values around 0.002, where rtol * |b| is two to three units
TolVals == {-200002, 199999, 200000, 200002, 200003, 200006}

RECURSIVE SortedSeqs(_)
SortedSeqs(n) ==
    IF n = 0 THEN {<<>>}
    ELSE UNION {{<<x>> \o t : t \in {u \in SortedSeqs(n - 1) : u = <<>> \/ x <= u[1]}} :
                x \in TolVals}

\* two sorted spectra of any lengths; the one-vertex graph and the empty graph
InitTol ==
    /\ \E m, n \in 0..MaxLen : s1 \in SortedSeqs(m) /\ s2 \in SortedSeqs(n)
    /\ heap = [A1 |-> << <<0>> >>, A2 |-> <<>>]
    /\ InitRest

SpecTol == InitTol /\ [][Next]_vars

(***************************************************************************)
(* Properties.                                                             *)
(***************************************************************************)
\* the text of the verdict printed for a representation
VerdictOf(label) ==
    out[CHOOSE i \in 1..Len(out) : out[i].kind = "verdict" /\ out[i].label = label].text

\* the number of verdict lines printed
NumVerdicts == Cardinality({i \in 1..Len(out) : out[i].kind = "verdict"})

\* the representations in the order of the report
ReportOrder ==
    <<"Adjacency A", "Laplacian L", "Normalized L", "Signless |L|", "Line-graph A">>

NonNegative(M) == \A i \in 1..NRows(M) : \A j \in 1..NCols(M) : M[i][j] >= 0

\* C1: compare_pair on a graph and a relabelling of it completes and prints
\* 'cospettrali' for all five representations, never 'diversi'
C1_IsomorphicCospectral ==
    (ret.op = "compare_pair" /\ Isomorphic(heap["A1"], heap["A2"]))
        => /\ ret.err = "none"
           /\ Len(out) = 6
           /\ \A i \in 2..6 : out[i].text = "cospettrali"

C1_Witness ==
    /\ ret.op = "compare_pair"
    /\ NRows(heap["A1"]) = IsoN
    /\ heap["A1"] # heap["A2"]
    /\ Len(out) = 6
    /\ \A i \in 2..6 : out[i].text = "cospettrali"

\* C2: the closeness test on two spectra of different lengths returns false
\* and raises nothing, and compare_pair on graphs of different orders
\* completes and prints 'diversi' for the four matrix representations
C2_LengthMismatchDistinct ==
    /\ (ret.op = "allclose" /\ Len(s1) # Len(s2))
           => (ret.err = "none" /\ ret.val = FALSE)
    /\ (ret.op = "compare_pair" /\ NRows(heap["A1"]) # NRows(heap["A2"]))
           => /\ ret.err = "none"
              /\ Len(out) = 6
              /\ \A i \in 2..5 : out[i].text = "diversi"

\* C3: for A_tri_iso and A_star the Signless verdict is 'cospettrali' and
\* the Adjacency verdict is 'diversi'
C3_TriStar ==
    (ret.op = "compare_pair" /\ heap["A1"] = A_tri_iso /\ heap["A2"] = A_star)
        => /\ ret.err = "none"
           /\ Len(out) = 6
           /\ VerdictOf("Signless |L|") = "cospettrali"
           /\ VerdictOf("Adjacency A") = "diversi"

C3_Witness ==
    /\ ret.op = "compare_pair"
    /\ heap["A1"] = A_tri_iso /\ heap["A2"] = A_star
    /\ NumVerdicts = 5

\* C4: the two Saltire graphs have the adjacency spectrum -2, 0, 0, 0, 2,
\* their Adjacency verdict is 'cospettrali', and no relabelling turns one
\* into the other
C4_Saltire ==
    /\ (ret.op = "sorted_eigvals" /\ heap[ret.arg] \in {A_saltire_1, A_saltire_2})
           => /\ ret.err = "none"
              /\ ret.val = <<-2 * FixUnit, 0, 0, 0, 2 * FixUnit>>
    /\ (ret.op = "compare_pair" /\ heap["A1"] = A_saltire_1 /\ heap["A2"] = A_saltire_2)
           => /\ ret.err = "none"
              /\ Len(out) = 6
              /\ VerdictOf("Adjacency A") = "cospettrali"
              /\ ~Isomorphic(heap["A1"], heap["A2"])

C4_Witness ==
    /\ ret.op = "compare_pair"
    /\ heap["A1"] = A_saltire_1 /\ heap["A2"] = A_saltire_2
    /\ Len(out) = 6
    /\ out[2].text = "cospettrali"

\* C5: normalized_laplacian of a square array without negative entries has
\* only finite entries, and the row and the column of every vertex of
\* degree zero are exactly zero
C5_NormalizedFinite ==
    (ret.op = "normalized_laplacian" /\ IsSquare(heap[ret.arg])
       /\ NonNegative(heap[ret.arg]))
        => /\ ret.err = "none"
           /\ \A i, j \in 1..NRows(ret.val) : IsFinite(ret.val[i][j])
           /\ \A i \in 1..NRows(ret.val) :
                  RowSums(heap[ret.arg])[i] = 0
                      => \A j \in 1..NRows(ret.val) :
                             ret.val[i][j] = Zero /\ ret.val[j][i] = Zero

C5_Witness ==
    /\ ret.op = "normalized_laplacian"
    /\ ret.err = "none"
    /\ NonNegative(heap[ret.arg])
    /\ \E i, k \in 1..NRows(heap[ret.arg]) :
           RowSums(heap[ret.arg])[i] = 0 /\ RowSums(heap[ret.arg])[k] > 0

\* C6: a compare_pair call that returns has printed the pair's name and then
\* exactly five verdicts, in the order Adjacency, Laplacian, Normalized,
\* Signless, Line-graph, each of them 'cospettrali' or 'diversi'
C6_FiveVerdictsInOrder ==
    (ret.op = "compare_pair" /\ ret.err = "none")
        => /\ Len(out) = 6
           /\ out[1] = NameLine("pair")
           /\ \A i \in 1..5 :
                  /\ out[i + 1].kind = "verdict"
                  /\ out[i + 1].label = ReportOrder[i]
                  /\ out[i + 1].text \in {"cospettrali", "diversi"}

C6_Witness ==
    /\ ret.op = "compare_pair"
    /\ ret.err = "none"
    /\ \E i, j \in 2..Len(out) :
           out[i].text = "cospettrali" /\ out[j].text = "diversi"

\* C7: no step of any operation changes an array of the caller
C7_CallerArraysUnchanged == [][heap' = heap]_vars

C7_Witness ==
    /\ ret.op = "laplacian"
    /\ ret.err = "none"
    /\ NRows(heap[ret.arg]) >= 2
    /\ ret.val # heap[ret.arg]

\* the tolerance criterion of the specification for one pair of values
WithinTol(x, y) ==
    LET d == Abs(x - y)
    IN  /\ d <= 2 * Atol + Abs(y) \div RtolInv
        /\ (d - Atol) * RtolInv <= Abs(y)

\* C8: for two spectra of equal length the closeness test returns true
\* exactly when |s1[i] - s2[i]| <= atol + rtol * |s2[i]| at every index
C8_ToleranceCriterion ==
    (ret.op = "allclose" /\ Len(s1) = Len(s2))
        => /\ ret.err = "none"
           /\ ret.val <=> \A i \in 1..Len(s1) : WithinTol(s1[i], s2[i])

C8_Witness ==
    /\ ret.op = "allclose"
    /\ Len(s1) = Len(s2)
    /\ Len(s1) > 0
    /\ ret.val = FALSE
    /\ \A i \in 1..Len(s1) : WithinTol(s2[i], s1[i])

\* C9: laplacian returns D - A and signless_laplacian D + A entry by entry,
\* the rows of D - A sum to zero, and the two results add up to 2 D
C9_LaplacianEntries ==
    /\ (ret.op = "laplacian" /\ IsSquare(heap[ret.arg]))
           => /\ ret.err = "none"
              /\ \A i, j \in 1..NRows(ret.val) :
                     ret.val[i][j] = (IF i = j THEN RowSums(heap[ret.arg])[i] ELSE 0)
                                       - heap[ret.arg][i][j]
              /\ \A i \in 1..NRows(ret.val) : SumInts(ret.val[i]) = 0
    /\ (ret.op = "signless_laplacian" /\ IsSquare(heap[ret.arg]))
           => /\ ret.err = "none"
              /\ \A i, j \in 1..NRows(ret.val) :
                     /\ ret.val[i][j] = (IF i = j THEN RowSums(heap[ret.arg])[i] ELSE 0)
                                          + heap[ret.arg][i][j]
                     /\ laplacian(heap, ret.arg).val[i][j] + ret.val[i][j]
                            = (IF i = j THEN 2 * RowSums(heap[ret.arg])[i] ELSE 0)

C9_Witness ==
    /\ ret.op = "signless_laplacian"
    /\ ret.err = "none"
    /\ \E i, j \in 1..NRows(heap[ret.arg]) :
           /\ heap[ret.arg][i][i] # 0
           /\ heap[ret.arg][i][j] # heap[ret.arg][j][i]

\* C10: a compare_pair call leaves either no verdict line or all five,
\* whether it returns or raises
C10_NoPartialReport == ret.op = "compare_pair" => NumVerdicts \in {0, 5}

====
